---------------------------- MODULE Spec2Model ----------------------------
(***************************************************************************)
(* Model of include/yaml-cpp/node/convert.h: the convert<T> codecs between *)
(* native values and document nodes.                                       *)
(*                                                                         *)
(* A text (std::string) is a sequence of one-character strings.  A 64-bit  *)
(* accumulator (long long / unsigned long long) is a little-endian         *)
(* sequence of four 16-bit limbs, so the arithmetic keeps its real width.  *)
(***************************************************************************)
EXTENDS Integers, Sequences, FiniteSets, TLC

VARIABLES pc, rt, ty, val, node, prior, rhs, ret, cnt

vars == <<pc, rt, ty, val, node, prior, rhs, ret, cnt>>

(***************************************************************************)
(* Bounds of the model.                                                    *)
(***************************************************************************)
\* longest scalar text enumerated over IntAlphabet
MaxTextLen == 3
\* integers -MaxSmall..MaxSmall are encoded besides each type's limits
MaxSmall == 2
\* mantissas 1..MaxMantissa are encoded at each exponent of FloatExps
MaxMantissa == 5
\* most children of a Sequence node, and most elements of a native sequence
MaxSeqLen == 3
\* most entries of a Map node
MaxMapLen == 2
\* longest base64 text
MaxB64Len == 4
\* most bytes of an encoded Binary
MaxBytes == 4

(***************************************************************************)
(* Characters and the scalar grammars (full-string std::regex_match).      *)
(***************************************************************************)
Digit == {"0", "1", "2", "3", "4", "5", "6", "7", "8", "9"}
OctDigit == {"0", "1", "2", "3", "4", "5", "6", "7"}
HexDigit == Digit \cup {"a", "b", "c", "d", "e", "f", "A", "B", "C", "D", "E", "F"}
Sign == {"-", "+"}

AllIn(s, set) == \A i \in 1..Len(s) : s[i] \in set

\* substr(pos): the text from 0-based position pos on
substr(s, pos) == SubSeq(s, pos + 1, Len(s))

StripSign(s) == IF Len(s) > 0 /\ s[1] \in Sign THEN Tail(s) ELSE s

\* "[-+]?[0-9]+"
re_decimal(s) == LET b == StripSign(s) IN Len(b) >= 1 /\ AllIn(b, Digit)

\* "0o[0-7]+"
re_octal_signed(s) ==
  LET b == StripSign(s) IN
  Len(b) >= 3 /\ b[1] = "0" /\ b[2] = "o" /\ AllIn(substr(b, 2), OctDigit)
re_octal(s) ==
  Len(s) >= 3 /\ s[1] = "0" /\ s[2] = "o" /\ AllIn(substr(s, 2), OctDigit)

\* "0x[0-9a-fA-F]+"
re_hex_signed(s) ==
  LET b == StripSign(s) IN
  Len(b) >= 3 /\ b[1] = "0" /\ b[2] = "x" /\ AllIn(substr(b, 2), HexDigit)
re_hex(s) ==
  Len(s) >= 3 /\ s[1] = "0" /\ s[2] = "x" /\ AllIn(substr(s, 2), HexDigit)

(***************************************************************************)
(* Document nodes (node.h, consumed): a kind, a scalar text, children.     *)
(* The children of a Map are <<key node, value node>> pairs.               *)
(***************************************************************************)
NullNode == [kind |-> "Null", scalar |-> <<>>, children |-> <<>>]
ScalarNode(t) == [kind |-> "Scalar", scalar |-> t, children |-> <<>>]
SequenceNode(c) == [kind |-> "Sequence", scalar |-> <<>>, children |-> c]
MapNode(c) == [kind |-> "Map", scalar |-> <<>>, children |-> c]

(***************************************************************************)
(* Limb arithmetic of the wide accumulators.                               *)
(***************************************************************************)
LimbBits == 4 * 4
LimbBase == 2 ^ LimbBits
\* limbs of long long and unsigned long long
AccLimbs == 64 \div LimbBits

ZeroLimbs(n) == [i \in 1..n |-> 0]
IsZero(x) == \A i \in 1..Len(x) : x[i] = 0

RECURSIVE MulAddFrom(_, _, _, _)
MulAddFrom(x, b, c, i) ==
  IF i > Len(x) THEN <<c>>
  ELSE LET t == x[i] * b + c
       IN <<t % LimbBase>> \o MulAddFrom(x, b, t \div LimbBase, i + 1)

\* x * b + d in Len(x) limbs, with the carry out of the top limb
MulAdd(x, b, d) ==
  LET r == MulAddFrom(x, b, d, 1)
  IN [limbs |-> SubSeq(r, 1, Len(x)), carry |-> r[Len(x) + 1]]

RECURSIVE CmpFrom(_, _, _)
CmpFrom(x, y, i) ==
  IF i = 0 THEN 0
  ELSE IF x[i] < y[i] THEN -1
  ELSE IF x[i] > y[i] THEN 1
  ELSE CmpFrom(x, y, i - 1)

\* -1, 0, 1 as x <, =, > y (same number of limbs)
Cmp(x, y) == CmpFrom(x, y, Len(x))

\* 2^k and 2^k - 1 in n limbs
Pow2(k, n) ==
  [i \in 1..n |-> IF i = (k \div LimbBits) + 1 THEN 2 ^ (k % LimbBits) ELSE 0]
Pow2Minus1(k, n) ==
  [i \in 1..n |-> IF i <= k \div LimbBits THEN LimbBase - 1
                  ELSE IF i = (k \div LimbBits) + 1 THEN 2 ^ (k % LimbBits) - 1
                  ELSE 0]

\* unsigned negation modulo 2^(16 * Len(x))
TwosNeg(x) ==
  IF IsZero(x) THEN x
  ELSE MulAdd([i \in 1..Len(x) |-> LimbBase - 1 - x[i]], 1, 1).limbs

RECURSIVE DivFrom(_, _, _, _)
DivFrom(x, d, r, i) ==
  IF i = 0 THEN <<r>>
  ELSE LET t == r * LimbBase + x[i]
       IN DivFrom(x, d, t % d, i - 1) \o <<t \div d>>

\* quotient and remainder of x by a small d
DivSmall(x, d) ==
  LET r == DivFrom(x, d, 0, Len(x))
  IN [rem |-> r[1],
      quot |-> [i \in 1..Len(x) |-> r[i + 1]]]

DigitChar == <<"0", "1", "2", "3", "4", "5", "6", "7", "8", "9">>

RECURSIVE DecimalDigits(_)
DecimalDigits(x) ==
  IF IsZero(x) THEN <<>>
  ELSE LET q == DivSmall(x, 10)
       IN DecimalDigits(q.quot) \o <<DigitChar[q.rem + 1]>>

DigitValue(c) ==
  CASE c = "0" -> 0 [] c = "1" -> 1 [] c = "2" -> 2 [] c = "3" -> 3
    [] c = "4" -> 4 [] c = "5" -> 5 [] c = "6" -> 6 [] c = "7" -> 7
    [] c = "8" -> 8 [] c = "9" -> 9
    [] c \in {"a", "A"} -> 10 [] c \in {"b", "B"} -> 11
    [] c \in {"c", "C"} -> 12 [] c \in {"d", "D"} -> 13
    [] c \in {"e", "E"} -> 14 [] c \in {"f", "F"} -> 15

\* the digits of s accumulated in n limbs, most significant first; over is
\* set once the value no longer fits, and stays set
RECURSIVE Magnitude(_, _, _)
Magnitude(s, base, n) ==
  IF Len(s) = 0 THEN [limbs |-> ZeroLimbs(n), over |-> FALSE]
  ELSE LET p == Magnitude(SubSeq(s, 1, Len(s) - 1), base, n)
       IN IF p.over THEN p
          ELSE LET m == MulAdd(p.limbs, base, DigitValue(s[Len(s)]))
               IN [limbs |-> m.limbs, over |-> m.carry # 0]

(***************************************************************************)
(* Native integers: a sign and a magnitude of AccLimbs limbs.              *)
(***************************************************************************)
MkInt(neg, mag) == [neg |-> neg /\ ~IsZero(mag), mag |-> mag]

SmallInt(k) ==
  MkInt(k < 0, [i \in 1..AccLimbs |-> IF i = 1 THEN (IF k < 0 THEN -k ELSE k)
                                     ELSE 0])

\* a < b
IntLess(a, b) ==
  IF a.neg # b.neg THEN a.neg
  ELSE IF a.neg THEN Cmp(a.mag, b.mag) = 1
  ELSE Cmp(a.mag, b.mag) = -1

IntTypes == {"signed char", "short", "int", "long long",
             "unsigned char", "unsigned short", "unsigned", "unsigned long long"}

is_signed(T) == T \in {"signed char", "short", "int", "long long"}

Bits(T) ==
  CASE T \in {"signed char", "unsigned char"} -> 8
    [] T \in {"short", "unsigned short"} -> 16
    [] T \in {"int", "unsigned"} -> 32
    [] T \in {"long long", "unsigned long long"} -> 64

\* std::numeric_limits<T>::max() and min()
numeric_limits_max(T) ==
  IF is_signed(T) THEN MkInt(FALSE, Pow2Minus1(Bits(T) - 1, AccLimbs))
  ELSE MkInt(FALSE, Pow2Minus1(Bits(T), AccLimbs))
numeric_limits_min(T) ==
  IF is_signed(T) THEN MkInt(TRUE, Pow2(Bits(T) - 1, AccLimbs))
  ELSE MkInt(FALSE, ZeroLimbs(AccLimbs))

\* std::to_string of an integer
to_string(v) ==
  (IF v.neg THEN <<"-">> ELSE <<>>)
    \o (IF IsZero(v.mag) THEN <<"0">> ELSE DecimalDigits(v.mag))

\* std::stoll: optional sign, digits in the base; out_of_range when the
\* value is not a long long
stoll(s, base) ==
  LET neg == Len(s) > 0 /\ s[1] = "-"
      m == Magnitude(StripSign(s), base, AccLimbs)
      limit == IF neg THEN Pow2(63, AccLimbs) ELSE Pow2Minus1(63, AccLimbs)
  IN [out_of_range |-> m.over \/ Cmp(m.limbs, limit) = 1,
      num |-> MkInt(neg, m.limbs)]

\* std::stoull: optional sign, digits in the base; out_of_range when the
\* magnitude is not an unsigned long long; a '-' negates modulo 2^64
stoull(s, base) ==
  LET neg == Len(s) > 0 /\ s[1] = "-"
      m == Magnitude(StripSign(s), base, AccLimbs)
  IN [out_of_range |-> m.over,
      num |-> MkInt(FALSE, IF neg THEN TwosNeg(m.limbs) ELSE m.limbs)]

\* convert<signed integral>::encode, convert<unsigned integral>::encode
signed_encode(v) == ScalarNode(to_string(v))
unsigned_encode(v) == ScalarNode(to_string(v))

Fail(target) == [ok |-> FALSE, rhs |-> target]
Ok(v) == [ok |-> TRUE, rhs |-> v]

\* the range check and the assignment that end both integral decodes
Narrow_strict(T, p, target) ==
  IF p.out_of_range THEN Fail(target)
  ELSE IF ~IntLess(p.num, numeric_limits_max(T))
          \/ ~IntLess(numeric_limits_min(T), p.num) THEN Fail(target)
  ELSE Ok(p.num)
Narrow(T, p, target) ==
  IF p.out_of_range THEN Fail(target)
  ELSE IF IntLess(numeric_limits_max(T), p.num)
          \/ IntLess(p.num, numeric_limits_min(T)) THEN Fail(target)
  ELSE Ok(p.num)

\* convert<signed integral>::decode
signed_decode_any_sign(T, n, target) ==
  IF n.kind # "Scalar" THEN Fail(target)
  ELSE LET input == n.scalar IN
    IF re_decimal(input) THEN Narrow(T, stoll(input, 10), target)
    ELSE IF re_octal_signed(input)
      THEN Narrow(T, stoll(substr(StripSign(input), 2), 8), target)
    ELSE IF re_hex_signed(input)
      THEN Narrow(T, stoll(substr(StripSign(input), 2), 16), target)
    ELSE Fail(target)
signed_decode(T, n, target) ==
  IF n.kind # "Scalar" THEN Fail(target)
  ELSE LET input == n.scalar IN
    IF re_decimal(input) THEN Narrow(T, stoll(input, 10), target)
    ELSE IF re_octal(input) THEN Narrow(T, stoll(substr(input, 2), 8), target)
    ELSE IF re_hex(input) THEN Narrow(T, stoll(substr(input, 2), 16), target)
    ELSE Fail(target)

\* convert<unsigned integral>::decode
unsigned_decode(T, n, target) ==
  IF n.kind # "Scalar" THEN Fail(target)
  ELSE LET input == n.scalar IN
    IF re_decimal(input) THEN Narrow(T, stoull(input, 10), target)
    ELSE IF re_octal(input) THEN Narrow(T, stoull(substr(input, 2), 8), target)
    ELSE IF re_hex(input) THEN Narrow(T, stoull(substr(input, 2), 16), target)
    ELSE Fail(target)

integral_decode(T, n, target) ==
  IF is_signed(T) THEN signed_decode(T, n, target)
  ELSE unsigned_decode(T, n, target)

(***************************************************************************)
(* Integral codec: the inputs and the operations.                          *)
(***************************************************************************)
\* scalar texts at the edges of the grammars and of the types' ranges
EdgeTexts == {
   <<"4", "2">>,
   <<"0", "o", "5", "2">>,
   <<"0", "x", "2", "a">>,
   <<"0", "X", "2", "A">>,
   <<"-", "0", "x", "2", "a">>,
   <<"+", "0", "x", "2", "a">>,
   <<"-", "0", "o", "5", "2">>,
   <<"+", "0", "o", "5", "2">>,
   <<"0", "x", "2", "A">>,
   <<"0", "5", "2">>,
   <<"-", "4", "2">>,
   <<"+", "4", "2">>,
   <<"1", "2", "7">>,
   <<"1", "2", "8">>,
   <<"-", "1", "2", "8">>,
   <<"-", "1", "2", "9">>,
   <<"2", "5", "5">>,
   <<"2", "5", "6">>,
   <<"3", "2", "7", "6", "7">>,
   <<"3", "2", "7", "6", "8">>,
   <<"-", "3", "2", "7", "6", "8">>,
   <<"-", "3", "2", "7", "6", "9">>,
   <<"6", "5", "5", "3", "5">>,
   <<"6", "5", "5", "3", "6">>,
   <<"2", "1", "4", "7", "4", "8", "3", "6", "4", "7">>,
   <<"2", "1", "4", "7", "4", "8", "3", "6", "4", "8">>,
   <<"-", "2", "1", "4", "7", "4", "8", "3", "6", "4", "8">>,
   <<"-", "2", "1", "4", "7", "4", "8", "3", "6", "4", "9">>,
   <<"4", "2", "9", "4", "9", "6", "7", "2", "9", "5">>,
   <<"4", "2", "9", "4", "9", "6", "7", "2", "9", "6">>,
   <<"9", "2", "2", "3", "3", "7", "2", "0", "3", "6", "8", "5", "4", "7", "7", "5", "8", "0", "7">>,
   <<"9", "2", "2", "3", "3", "7", "2", "0", "3", "6", "8", "5", "4", "7", "7", "5", "8", "0", "8">>,
   <<"-", "9", "2", "2", "3", "3", "7", "2", "0", "3", "6", "8", "5", "4", "7", "7", "5", "8", "0", "8">>,
   <<"-", "9", "2", "2", "3", "3", "7", "2", "0", "3", "6", "8", "5", "4", "7", "7", "5", "8", "0", "9">>,
   <<"1", "8", "4", "4", "6", "7", "4", "4", "0", "7", "3", "7", "0", "9", "5", "5", "1", "6", "1", "5">>,
   <<"1", "8", "4", "4", "6", "7", "4", "4", "0", "7", "3", "7", "0", "9", "5", "5", "1", "6", "1", "6">>,
   <<"-", "1", "8", "4", "4", "6", "7", "4", "4", "0", "7", "3", "7", "0", "9", "5", "5", "1", "6", "1", "5">>,
   <<"-", "1", "8", "4", "4", "6", "7", "4", "4", "0", "7", "3", "7", "0", "9", "5", "5", "1", "6", "1", "6">>,
   <<"9", "9", "9", "9", "9", "9", "9", "9", "9", "9", "9", "9", "9", "9", "9", "9", "9", "9", "9", "9">>,
   <<"-", "1">>,
   <<"-", "0">>,
   <<"0", "x", "7", "f">>,
   <<"0", "x", "8", "0">>,
   <<"0", "x", "f", "f">>,
   <<"0", "x", "1", "0", "0">>,
   <<"0", "x", "7", "f", "f", "f", "f", "f", "f", "f", "f", "f", "f", "f", "f", "f", "f", "f">>,
   <<"0", "x", "8", "0", "0", "0", "0", "0", "0", "0", "0", "0", "0", "0", "0", "0", "0", "0">>,
   <<"0", "x", "f", "f", "f", "f", "f", "f", "f", "f", "f", "f", "f", "f", "f", "f", "f", "f">>,
   <<"0", "x", "1", "0", "0", "0", "0", "0", "0", "0", "0", "0", "0", "0", "0", "0", "0", "0", "0">>,
   <<"0", "o", "1", "7", "7">>,
   <<"0", "o", "2", "0", "0">>,
   <<"0", "o", "7", "7", "7", "7", "7", "7", "7", "7", "7", "7", "7", "7", "7", "7", "7", "7", "7", "7", "7", "7", "7">>,
   <<"0", "o", "1", "7", "7", "7", "7", "7", "7", "7", "7", "7", "7", "7", "7", "7", "7", "7", "7", "7", "7", "7", "7", "7">>,
   <<"0", "o", "2", "0", "0", "0", "0", "0", "0", "0", "0", "0", "0", "0", "0", "0", "0", "0", "0", "0", "0", "0", "0", "0">>,
   <<"0", "o", "8">>,
   <<"0", "x", "g">>,
   <<"5", ".">>,
   <<"4", " ", "2">>,
   <<"t", "r", "u", "e">>}

IntAlphabet == {"-", "0", "1", "8", "o", "x", "f", "."}

Texts(alphabet, n) == UNION {[1..k -> alphabet] : k \in 0..n}

IntTexts == EdgeTexts \cup Texts(IntAlphabet, MaxTextLen)

OtherKindNodes ==
  {NullNode, SequenceNode(<<ScalarNode(<<"1">>)>>),
   MapNode(<<<<ScalarNode(<<"1">>), ScalarNode(<<"1">>)>>>>)}

IntNodes == {ScalarNode(t) : t \in IntTexts} \cup OtherKindNodes

\* the values of T that are encoded: its limits, their neighbours, and the
\* small integers
IntValues(T) ==
  LET mx == numeric_limits_max(T)
      mn == numeric_limits_min(T)
      less1(m) == [m EXCEPT ![1] = m[1] - 1]
  IN {mx, mn, MkInt(FALSE, less1(mx.mag))}
       \cup (IF is_signed(T) THEN {MkInt(TRUE, mx.mag)} ELSE {})
       \cup {SmallInt(k) : k \in (IF is_signed(T) THEN -MaxSmall ELSE 0)..MaxSmall}

NoValue == SmallInt(0)

InitInt ==
  /\ ty \in IntTypes
  /\ prior = SmallInt(1)
  /\ rhs = prior
  /\ ret = "none"
  /\ cnt = 0
  /\ rt = FALSE
  /\ \/ pc = "encode" /\ val \in IntValues(ty) /\ node = NullNode
     \/ pc = "decode" /\ val = NoValue /\ node \in IntNodes

Outcome(r) == IF r.ok THEN "true" ELSE "false"

EncodeSigned ==
  /\ pc = "encode" /\ ty \in IntTypes /\ is_signed(ty)
  /\ node' = signed_encode(val)
  /\ pc' = "decode" /\ rt' = TRUE
  /\ UNCHANGED <<ty, val, prior, rhs, ret, cnt>>

EncodeUnsigned ==
  /\ pc = "encode" /\ ty \in IntTypes /\ ~is_signed(ty)
  /\ node' = unsigned_encode(val)
  /\ pc' = "decode" /\ rt' = TRUE
  /\ UNCHANGED <<ty, val, prior, rhs, ret, cnt>>

DecodeSigned ==
  /\ pc = "decode" /\ ty \in IntTypes /\ is_signed(ty)
  /\ LET r == signed_decode(ty, node, rhs)
     IN rhs' = r.rhs /\ ret' = Outcome(r)
  /\ pc' = "done"
  /\ UNCHANGED <<rt, ty, val, node, prior, cnt>>

DecodeUnsigned ==
  /\ pc = "decode" /\ ty \in IntTypes /\ ~is_signed(ty)
  /\ LET r == unsigned_decode(ty, node, rhs)
     IN rhs' = r.rhs /\ ret' = Outcome(r)
  /\ pc' = "done"
  /\ UNCHANGED <<rt, ty, val, node, prior, cnt>>

NextInt == EncodeSigned \/ EncodeUnsigned \/ DecodeSigned \/ DecodeUnsigned

SpecInt == InitInt /\ [][NextInt]_vars


(***************************************************************************)
(* Natural numbers of any size, for the exact decimal <-> binary           *)
(* conversions that strtold and printf perform: little-endian limbs with   *)
(* no zero top limb; <<>> is zero.  Passes that carry split their range in *)
(* halves, so the evaluation depth stays logarithmic in the length.        *)
(***************************************************************************)
Max(a, b) == IF a >= b THEN a ELSE b

Limb(x, i) == IF i >= 1 /\ i <= Len(x) THEN x[i] ELSE 0

\* x without its zero top limbs
NatNorm(x) ==
  IF \A i \in 1..Len(x) : x[i] = 0 THEN <<>>
  ELSE LET n == Len(x)
           k == CHOOSE k \in 1..n :
                  x[n + 1 - k] # 0 /\ \A j \in (n + 2 - k)..n : x[j] = 0
       IN SubSeq(x, 1, n + 1 - k)

NatFromInt(k) == NatNorm(<<k % LimbBase, k \div LimbBase>>)

BitLenSmall(v) ==
  CHOOSE b \in 0..LimbBits : v < 2 ^ b /\ (b = 0 \/ v >= 2 ^ (b - 1))

\* number of bits of x
NatBitLen(x) ==
  IF Len(x) = 0 THEN 0
  ELSE LimbBits * (Len(x) - 1) + BitLenSmall(x[Len(x)])

\* bit n of x (bit 0 is the least)
NatBit(x, n) == (Limb(x, (n \div LimbBits) + 1) \div (2 ^ (n % LimbBits))) % 2

\* the n low bits of x are all zero
NatLowZero(x, n) ==
  /\ \A i \in 1..(n \div LimbBits) : Limb(x, i) = 0
  /\ Limb(x, (n \div LimbBits) + 1) % (2 ^ (n % LimbBits)) = 0

\* x * 2^n
NatShiftLeft(x, n) ==
  IF Len(x) = 0 THEN <<>>
  ELSE LET q == n \div LimbBits
           r == n % LimbBits
           hi == 2 ^ (LimbBits - r)
       IN NatNorm([i \in 1..(Len(x) + q + 1) |->
                     (Limb(x, i - q) % hi) * (2 ^ r) + (Limb(x, i - q - 1) \div hi)])

\* x \div 2^n
NatShiftRight(x, n) ==
  LET q == n \div LimbBits
      r == n % LimbBits
      lo == 2 ^ r
  IN IF Len(x) <= q THEN <<>>
     ELSE NatNorm([i \in 1..(Len(x) - q) |->
                     (Limb(x, i + q) \div lo)
                       + (Limb(x, i + q + 1) % lo) * (2 ^ (LimbBits - r))])

\* -1, 0, 1 as x <, =, > y
NatCmp(x, y) ==
  IF Len(x) # Len(y) THEN (IF Len(x) < Len(y) THEN -1 ELSE 1)
  ELSE IF x = y THEN 0
  ELSE LET n == Len(x)
           k == CHOOSE k \in 1..n :
                  /\ x[n + 1 - k] # y[n + 1 - k]
                  /\ \A j \in (n + 2 - k)..n : x[j] = y[j]
       IN IF x[n + 1 - k] < y[n + 1 - k] THEN -1 ELSE 1

RECURSIVE MulRange(_, _, _, _, _)
MulRange(a, c, cin, lo, hi) ==
  IF lo = hi
    THEN LET t == a[lo] * c + cin
         IN [limbs |-> <<t % LimbBase>>, carry |-> t \div LimbBase]
  ELSE LET mid == (lo + hi) \div 2
           L == MulRange(a, c, cin, lo, mid)
           R == MulRange(a, c, L.carry, mid + 1, hi)
       IN [limbs |-> L.limbs \o R.limbs, carry |-> R.carry]

\* a * c for 1 <= c < 2^14
NatMulSmall(a, c) ==
  LET carried(r) == IF r.carry = 0 THEN r.limbs ELSE Append(r.limbs, r.carry)
  IN IF Len(a) = 0 THEN <<>> ELSE carried(MulRange(a, c, 0, 1, Len(a)))

RECURSIVE AddRange(_, _, _, _, _)
AddRange(x, y, cin, lo, hi) ==
  IF lo = hi
    THEN LET t == Limb(x, lo) + Limb(y, lo) + cin
         IN [limbs |-> <<t % LimbBase>>, carry |-> t \div LimbBase]
  ELSE LET mid == (lo + hi) \div 2
           L == AddRange(x, y, cin, lo, mid)
           R == AddRange(x, y, L.carry, mid + 1, hi)
       IN [limbs |-> L.limbs \o R.limbs, carry |-> R.carry]

NatAdd(x, y) ==
  LET carried(r) == IF r.carry = 0 THEN r.limbs ELSE Append(r.limbs, r.carry)
  IN IF Len(x) = 0 /\ Len(y) = 0 THEN <<>>
     ELSE carried(AddRange(x, y, 0, 1, IF Len(x) >= Len(y) THEN Len(x) ELSE Len(y)))

RECURSIVE SubRange(_, _, _, _, _)
SubRange(x, y, bin, lo, hi) ==
  IF lo = hi
    THEN LET t == Limb(x, lo) - Limb(y, lo) - bin
         IN [limbs |-> <<IF t < 0 THEN t + LimbBase ELSE t>>,
             carry |-> IF t < 0 THEN 1 ELSE 0]
  ELSE LET mid == (lo + hi) \div 2
           L == SubRange(x, y, bin, lo, mid)
           R == SubRange(x, y, L.carry, mid + 1, hi)
       IN [limbs |-> L.limbs \o R.limbs, carry |-> R.carry]

\* x - y for x >= y
NatSub(x, y) ==
  IF Len(x) = 0 THEN <<>> ELSE NatNorm(SubRange(x, y, 0, 1, Len(x)).limbs)

\* a * 5^k
RECURSIVE NatTimes5(_, _)
NatTimes5(a, k) ==
  IF k <= 6 THEN NatMulSmall(a, 5 ^ k)
  ELSE LET h == 6 * (((k \div 6) + 1) \div 2)
           inner == NatTimes5(a, h)
       IN IF Len(inner) = 0 THEN <<>> ELSE NatTimes5(inner, k - h)

NatPow10(n) == NatShiftLeft(NatTimes5(<<1>>, n), n)

\* n steps of binary long division of R * 2^n by D, for R < D
RECURSIVE NatDivBits(_, _, _, _)
NatDivBits(R, D, n, q) ==
  LET bit(R2, q1, ge) ==
        [quot |-> IF ge THEN NatAdd(q1, <<1>>) ELSE q1,
         rem |-> IF ge THEN NatSub(R2, D) ELSE R2]
      shifted(R2, q1) == bit(R2, q1, NatCmp(R2, D) >= 0)
      rest(first) ==
        IF Len(first.quot) < 0 \/ Len(first.rem) < 0 THEN first
        ELSE NatDivBits(first.rem, D, n - (n \div 2), first.quot)
  IN IF n = 0 THEN [quot |-> q, rem |-> R]
     ELSE IF n = 1 THEN shifted(NatShiftLeft(R, 1), NatShiftLeft(q, 1))
     ELSE rest(NatDivBits(R, D, n \div 2, q))

\* quotient and remainder of N by D > 0
NatDiv(N, D) ==
  LET result(n, r) == [quot |-> r.quot, rem |-> NatShiftRight(r.rem, n)]
      steps(n) == result(n, NatDivBits(N, NatShiftLeft(D, n), n, <<>>))
  IN steps(Max(0, NatBitLen(N) - NatBitLen(D) + 1))

\* the number a text of decimal digits denotes
RECURSIVE NatFromDigits(_)
NatFromDigits(ds) ==
  LET h == Len(ds) \div 2
      sum(up, lo) == IF Len(up) < 0 \/ Len(lo) < 0 THEN <<>> ELSE NatAdd(up, lo)
      raised(hi) ==
        IF Len(hi) < 0 THEN <<>>
        ELSE NatShiftLeft(NatTimes5(hi, Len(ds) - h), Len(ds) - h)
  IN IF Len(ds) <= 1
       THEN (IF Len(ds) = 0 THEN <<>> ELSE NatFromInt(DigitValue(ds[1])))
     ELSE sum(raised(NatFromDigits(SubSeq(ds, 1, h))),
              NatFromDigits(SubSeq(ds, h + 1, Len(ds))))

(***************************************************************************)
(* Floating-point codec.                                                   *)
(*                                                                         *)
(* A finite floating-point value is mant * 2^exp with mant odd (zero is    *)
(* mant = <<>>, exp = 0), negated when neg.  The formats are IEEE binary32 *)
(* and binary64 and the x87 extended format of long double; conversions    *)
(* round to nearest, ties to even.                                         *)
(***************************************************************************)
FloatTypes == {"float", "double", "long double"}

\* std::numeric_limits<T>
max_digits10(T) ==
  CASE T = "float" -> 9 [] T = "double" -> 17 [] T = "long double" -> 21
digits(T) ==
  CASE T = "float" -> 24 [] T = "double" -> 53 [] T = "long double" -> 64
max_exponent(T) ==
  CASE T = "float" -> 128 [] T = "double" -> 1024 [] T = "long double" -> 16384
min_exponent(T) ==
  CASE T = "float" -> -125 [] T = "double" -> -1021 [] T = "long double" -> -16381
max_exponent10(T) ==
  CASE T = "float" -> 38 [] T = "double" -> 308 [] T = "long double" -> 4932
\* the decimal exponent of denorm_min
denorm_min_exponent10(T) ==
  CASE T = "float" -> -45 [] T = "double" -> -324 [] T = "long double" -> -4951

\* the binary exponent of the least bit a value of T can have
LeastBit(T) == min_exponent(T) - digits(T)

Finite(neg, mant, exp) ==
  LET odd(z) == [cls |-> "fin", neg |-> neg,
                 mant |-> NatShiftRight(mant, z), exp |-> exp + z]
  IN IF Len(mant) = 0 THEN [cls |-> "fin", neg |-> neg, mant |-> <<>>, exp |-> 0]
     ELSE odd(CHOOSE n \in 0..(NatBitLen(mant) - 1) :
                NatBit(mant, n) = 1 /\ NatLowZero(mant, n))
Infinity(neg) == [cls |-> "inf", neg |-> neg, mant |-> <<>>, exp |-> 0]
NaN == [cls |-> "nan", neg |-> FALSE, mant |-> <<>>, exp |-> 0]
FloatZero(neg) == Finite(neg, <<>>, 0)

\* N * 2^e without its drop low bits, rounded to nearest, ties to even;
\* sticky: the exact value lies above N * 2^e by less than 2^e
RoundBits(N, e, drop, sticky) ==
  LET rounded(q, half, rest) ==
        [q |-> IF half /\ (rest \/ NatBit(q, 0) = 1) THEN NatAdd(q, <<1>>) ELSE q,
         e |-> e + drop,
         inexact |-> half \/ rest]
  IN IF drop <= 0 THEN [q |-> N, e |-> e, inexact |-> sticky]
     ELSE rounded(NatShiftRight(N, drop), NatBit(N, drop - 1) = 1,
                  ~NatLowZero(N, drop - 1) \/ sticky)

\* N * 2^e (and sticky) rounded to a value of T.  tiny: rounded to the
\* precision of T with an unbounded exponent, the value is below the normal
\* range (tininess is detected after rounding)
RoundTo(T, neg, N, e, sticky) ==
  LET result(r, u) ==
        [overflow |-> Len(r.q) # 0 /\ r.e + NatBitLen(r.q) > max_exponent(T),
         tiny |-> Len(u.q) = 0 \/ u.e + NatBitLen(u.q) < min_exponent(T),
         inexact |-> r.inexact,
         num |-> Finite(neg, r.q, r.e)]
      both(L) == result(RoundBits(N, e, Max(L - digits(T), LeastBit(T) - e), sticky),
                        RoundBits(N, e, L - digits(T), sticky))
  IN both(NatBitLen(N))

\* m * 2^e * 10^t rounded to an integer, ties to even
ScaleRound(m, e, t) ==
  LET scaled(A) == IF e + t >= 0 THEN NatShiftLeft(A, e + t)
                   ELSE RoundBits(A, 0, -(e + t), FALSE).q
      rounded(q, c) == IF c > 0 \/ (c = 0 /\ NatBit(q, 0) = 1)
                         THEN NatAdd(q, <<1>>)
                       ELSE q
      halved(dv, den) == rounded(dv.quot, NatCmp(NatShiftLeft(dv.rem, 1), den))
      divided(num, den) == halved(NatDiv(num, den), den)
      over(F) == divided(IF e >= -t THEN NatShiftLeft(m, e + t) ELSE m,
                         IF e >= -t THEN F ELSE NatShiftLeft(F, -t - e))
  IN IF t >= 0 THEN scaled(NatTimes5(m, t))
     ELSE over(NatTimes5(<<1>>, -t))

\* the P significant decimal digits of a non-zero v, without trailing
\* zeros, and the decimal exponent of the first one; X is an estimate of
\* the exponent
RECURSIVE Render(_, _, _)
Render(v, P, X) ==
  LET cut(c, l) == [digs |-> SubSeq(c, 1, l), exp |-> X]
      trimmed(c) == cut(c, CHOOSE i \in 1..Len(c) :
                             c[i] # "0" /\ \A j \in (i + 1)..Len(c) : c[j] = "0")
      placed(D, hi, lo) ==
        IF hi >= 0 THEN Render(v, P, X + 1)
        ELSE IF lo < 0 THEN Render(v, P, X - 1)
        ELSE trimmed(DecimalDigits(D))
      compared(D, pw) ==
        placed(D, NatCmp(D, NatMulSmall(pw, 10)), NatCmp(D, pw))
  IN compared(ScaleRound(v.mant, v.exp, P - 1 - X), NatPow10(P - 1))

RECURSIVE NatDigits(_)
NatDigits(n) ==
  IF n < 10 THEN <<DigitChar[n + 1]>>
  ELSE NatDigits(n \div 10) \o <<DigitChar[(n % 10) + 1]>>

Zeros(n) == [i \in 1..n |-> "0"]

\* operator<< of a finite value at precision P in the default float format
\* (printf %.Pg): scientific when exp < -4 or exp >= P, else fixed; no
\* trailing zeros, no bare decimal point
stream_out(v, P) ==
  LET sign == IF v.neg THEN <<"-">> ELSE <<>>
      format(c, X) ==
        LET k == Len(c)
            ax == IF X < 0 THEN -X ELSE X
        IN IF X < -4 \/ X >= P
             THEN sign \o <<c[1]>>
                    \o (IF k > 1 THEN <<".">> \o SubSeq(c, 2, k) ELSE <<>>)
                    \o <<"e", IF X < 0 THEN "-" ELSE "+">>
                    \o (IF ax < 10 THEN <<"0">> ELSE <<>>) \o NatDigits(ax)
           ELSE IF X >= 0
             THEN sign \o (IF k <= X + 1 THEN c \o Zeros(X + 1 - k)
                           ELSE SubSeq(c, 1, X + 1) \o <<".">> \o SubSeq(c, X + 2, k))
           ELSE sign \o <<"0", ".">> \o Zeros(-X - 1) \o c
      rendered(r) == format(r.digs, r.exp)
  IN IF Len(v.mant) = 0 THEN sign \o <<"0">>
     ELSE rendered(Render(v, P, ((NatBitLen(v.mant) + v.exp - 1) * 30103) \div 100000))

\* "[-+]?(\\.[0-9]+|[0-9]+(\\.[0-9]*)?)([eE][-+]?[0-9]+)?"
Mantissa(b) ==
  \/ Len(b) >= 2 /\ b[1] = "." /\ AllIn(Tail(b), Digit)
  \/ \E k \in 1..Len(b) :
       /\ AllIn(SubSeq(b, 1, k), Digit)
       /\ \/ k = Len(b)
          \/ b[k + 1] = "." /\ AllIn(SubSeq(b, k + 2, Len(b)), Digit)
re_float(s) ==
  LET b == StripSign(s) IN
  \/ Mantissa(b)
  \/ \E k \in 1..Len(b) :
       /\ b[k] \in {"e", "E"}
       /\ Mantissa(SubSeq(b, 1, k - 1))
       /\ re_decimal(SubSeq(b, k + 1, Len(b)))

\* "[-+]?(\\.inf|\\.Inf|\\.INF)"
re_inf(s) == StripSign(s) \in {<<".", "i", "n", "f">>, <<".", "I", "n", "f">>, <<".", "I", "N", "F">>}

\* "\\.nan|\\.NaN|\\.NAN"
re_nan(s) == s \in {<<".", "n", "a", "n">>, <<".", "N", "a", "N">>, <<".", "N", "A", "N">>}

RECURSIVE ParseNat(_)
ParseNat(d) ==
  IF Len(d) = 0 THEN 0
  ELSE 10 * ParseNat(SubSeq(d, 1, Len(d) - 1)) + DigitValue(d[Len(d)])

\* digits without the zeros before the first and after the last non-zero
\* one, and the number of zeros taken off the end
Significant(d) ==
  IF \A i \in 1..Len(d) : d[i] = "0" THEN [digs |-> <<>>, zeros |-> 0]
  ELSE LET f == CHOOSE i \in 1..Len(d) :
                  d[i] # "0" /\ \A j \in 1..(i - 1) : d[j] = "0"
           l == CHOOSE i \in 1..Len(d) :
                  d[i] # "0" /\ \A j \in (i + 1)..Len(d) : d[j] = "0"
       IN [digs |-> SubSeq(d, f, l), zeros |-> Len(d) - l]

\* the exponent a text of digits denotes, cut off where every value is
\* beyond the range of long double
Exponent(d) ==
  LET capped(s) == IF Len(s) > 8 THEN 10 ^ 7 ELSE ParseNat(SubSeq(s, 1, Len(s) - 1))
  IN capped(Significant(d \o <<"1">>).digs)

\* the decimal a text of the float grammar denotes: digs * 10^x, digs with
\* no zero at either end (empty for zero)
ParseDecimal(s) ==
  LET result(sig, e, fpart) ==
        [neg |-> Len(s) > 0 /\ s[1] = "-",
         digs |-> sig.digs,
         x |-> e - Len(fpart) + sig.zeros]
      fraction(ipart, fpart, e) == result(Significant(ipart \o fpart), e, fpart)
      mantissa(m, e) ==
        LET dot == IF \E k \in 1..Len(m) : m[k] = "."
                   THEN CHOOSE k \in 1..Len(m) : m[k] = "."
                   ELSE Len(m) + 1
        IN fraction(SubSeq(m, 1, dot - 1), SubSeq(m, dot + 1, Len(m)), e)
      magnitude(negative, digs) ==
        IF negative THEN -Exponent(digs) ELSE Exponent(digs)
      exponent(etext) ==
        IF Len(etext) = 0 THEN 0
        ELSE magnitude(etext[1] = "-",
                       IF etext[1] \in {"-", "+"} THEN Tail(etext) ELSE etext)
      body(b) ==
        LET epos == IF \E k \in 1..Len(b) : b[k] \in {"e", "E"}
                    THEN CHOOSE k \in 1..Len(b) : b[k] \in {"e", "E"}
                    ELSE Len(b) + 1
        IN mantissa(SubSeq(b, 1, epos - 1), exponent(SubSeq(b, epos + 1, Len(b))))
  IN body(StripSign(s))

\* std::stold on a text of the float grammar (strtold, correctly rounded):
\* out_of_range when strtold reports ERANGE, which it does when the result
\* overflows and when it is tiny and inexact
stold(s) ==
  LET result(r) ==
        [out_of_range |-> r.overflow \/ (r.tiny /\ r.inexact), num |-> r.num]
      rounded(neg, b) == result(RoundTo("long double", neg, b.N, b.E, b.sticky))
      quotient(dv, E) == [N |-> dv.quot, E |-> E, sticky |-> Len(dv.rem) # 0]
      divided(d, F, sh, E) ==
        quotient(NatDiv(IF sh >= 0 THEN NatShiftLeft(d, sh) ELSE d,
                        IF sh >= 0 THEN F ELSE NatShiftLeft(F, -sh)),
                 E)
      aligned(d, F, k, E) == divided(d, F, -E - k, E)
      below(d, F, k) ==
        aligned(d, F, k,
                Max(NatBitLen(d) - NatBitLen(F) - 66 - k,
                    LeastBit("long double") - 2))
      binary(d, x) ==
        IF x >= 0 THEN [N |-> NatTimes5(d, x), E |-> x, sticky |-> FALSE]
        ELSE below(d, NatTimes5(<<1>>, -x), -x)
      ranged(t, sci) ==
        IF Len(t.digs) = 0 THEN [out_of_range |-> FALSE, num |-> FloatZero(t.neg)]
        ELSE IF sci > max_exponent10("long double")
                  \/ sci < denorm_min_exponent10("long double") - 1
          THEN [out_of_range |-> TRUE, num |-> FloatZero(t.neg)]
        ELSE rounded(t.neg, binary(NatFromDigits(t.digs), t.x))
      parsed(t) == ranged(t, Len(t.digs) - 1 + t.x)
  IN parsed(ParseDecimal(s))

\* rhs = num: the long double converted to T
narrow_float(T, v) ==
  LET converted(r) == IF r.overflow THEN Infinity(v.neg) ELSE r.num
  IN IF T = "long double" \/ v.cls # "fin" THEN v
     ELSE converted(RoundTo(T, v.neg, v.mant, v.exp, FALSE))

\* convert<floating point>::encode
float_encode(T, v) ==
  LET disambiguated(str) ==
        IF re_decimal(str) THEN ScalarNode(str \o <<".">>)
        ELSE ScalarNode(str)
  IN IF v.cls = "nan" THEN ScalarNode(<<".", "n", "a", "n">>)
     ELSE IF v.cls = "inf"
       THEN (IF v.neg THEN ScalarNode(<<"-", ".", "i", "n", "f">>) ELSE ScalarNode(<<".", "i", "n", "f">>))
     ELSE disambiguated(stream_out(v, max_digits10(T)))

\* convert<floating point>::decode
float_decode(T, n, target) ==
  LET assigned(p) == IF p.out_of_range THEN Fail(target)
                     ELSE Ok(narrow_float(T, p.num))
      matched(input) ==
        IF re_float(input) THEN assigned(stold(input))
        ELSE IF re_inf(input) THEN Ok(Infinity(input[1] = "-"))
        ELSE IF re_nan(input) THEN Ok(NaN)
        ELSE Fail(target)
  IN IF n.kind # "Scalar" THEN Fail(target) ELSE matched(n.scalar)

(***************************************************************************)
(* Floating-point codec: the inputs and the operations.                    *)
(***************************************************************************)
\* v is a value of T
IsValue(T, v) ==
  \/ v.cls # "fin"
  \/ Len(v.mant) = 0
  \/ /\ NatBitLen(v.mant) <= digits(T)
     /\ v.exp >= LeastBit(T)
     /\ v.exp + NatBitLen(v.mant) <= max_exponent(T)

\* std::numeric_limits<T>::denorm_min(), min() and max()
denorm_min(T) == Finite(FALSE, <<1>>, LeastBit(T))
float_min(T) == Finite(FALSE, <<1>>, min_exponent(T) - 1)
float_max(T) ==
  Finite(FALSE, NatSub(NatShiftLeft(<<1>>, digits(T)), <<1>>),
         max_exponent(T) - digits(T))

FloatExps == {-30, -10, -4, -3, -1, 0, 1, 2, 3, 10, 30, 70, 100}

\* decimals whose nearest value of T is encoded
NearTexts == {<<"0", ".", "1">>, <<"1", "e", "-", "5">>, <<"0", ".", "0", "0", "0", "1", "2">>, <<"3", ".", "1", "4">>, <<"1", "e", "2", "2">>, <<"1", "e", "2", "3">>,
              <<"1", "6", "7", "7", "7", "2", "1", "7">>, <<"1", "2", "3", "4", "5", "6", "7", "8", "9">>, <<"1", "e", "3", "7">>, <<"1", "e", "-", "3", "7">>}

FloatValues(T) ==
  {v \in {NaN} \cup {Infinity(n) : n \in BOOLEAN}
           \cup {FloatZero(n) : n \in BOOLEAN}
           \cup {Finite(n, NatFromInt(k), e) : n \in BOOLEAN,
                                               k \in 1..MaxMantissa, e \in FloatExps}
           \cup {Finite(n, float_max(T).mant, e - digits(T)) :
                   n \in BOOLEAN, e \in FloatExps}
           \cup {[narrow_float(T, stold(t).num) EXCEPT !.neg = n] :
                   n \in BOOLEAN, t \in NearTexts}
           \cup {denorm_min(T), float_min(T), float_max(T),
                 [float_max(T) EXCEPT !.neg = TRUE],
                 Finite(TRUE, <<3>>, LeastBit(T)),
                 Finite(FALSE, NatSub(NatShiftLeft(<<1>>, digits(T) - 1), <<1>>), LeastBit(T))} :
     IsValue(T, v)}

FloatTexts == {
   <<"5", ".">>, <<"5">>, <<".", "5">>, <<"5", ".", "0">>, <<"-", "0">>, <<"+", "1", ".", "5", "e", "3">>, <<"1", "e", "5">>, <<"1", "E", "-", "5">>,
   <<"1", "e">>, <<".">>, <<"e", "5">>, <<"1", ".", "e", "+", "2">>, <<"1", ".", "5", ".", "2">>, <<"0", "x", "1", "p", "3">>, <<>>,
   <<".", "i", "n", "f">>, <<"-", ".", "i", "n", "f">>, <<"+", ".", "I", "n", "f">>, <<".", "I", "N", "F">>, <<".", "i", "N", "F">>, <<"i", "n", "f">>, <<"-", "i", "n", "f">>,
   <<".", "n", "a", "n">>, <<".", "N", "a", "N">>, <<".", "N", "A", "N">>, <<"-", ".", "n", "a", "n">>, <<"n", "a", "n">>, <<".", "N", "a", "n">>,
   <<"1", "e", "-", "5", "0", "0", "0">>, <<"0", "e", "-", "5", "0", "0", "0">>, <<"1", "e", "5", "0", "0", "0">>, <<"1", "e", "9", "9", "9", "9", "9", "9", "9", "9", "9", "9", "9">>, <<"1", "e", "-", "9", "9", "9", "9", "9", "9", "9", "9", "9", "9", "9">>,
   <<"1", "e", "4", "9", "3", "2">>, <<"1", ".", "2", "e", "4", "9", "3", "2">>, <<"1", "e", "3", "9">>, <<"1", "e", "-", "4", "6">>, <<"1", "e", "3", "0", "9">>, <<"1", "e", "-", "3", "2", "4">>,
   <<"3", ".", "3", "6", "2", "1", "0", "3", "1", "4", "3", "1", "1", "2", "0", "9", "3", "5", "0", "6", "1", "7", "1", "5", "4", "7", "e", "-", "4", "9", "3", "2">>, <<"3", ".", "3", "6", "2", "1", "0", "3", "1", "4", "3", "1", "1", "2", "0", "9", "3", "5", "0", "6", "1", "7", "1", "5", "4", "8", "e", "-", "4", "9", "3", "2">>,
   <<"1", ".", "1", "8", "9", "7", "3", "1", "4", "9", "5", "3", "5", "7", "2", "3", "1", "7", "6", "5", "0", "5", "3", "5", "1", "1", "e", "+", "4", "9", "3", "2">>, <<"1", ".", "1", "8", "9", "7", "3", "1", "4", "9", "5", "3", "5", "7", "2", "3", "1", "7", "6", "5", "0", "5", "3", "5", "1", "2", "e", "+", "4", "9", "3", "2">>,
   <<"3", ".", "4", "0", "2", "8", "2", "3", "5", "e", "3", "8">>, <<"3", ".", "4", "0", "2", "8", "2", "3", "6", "e", "3", "8">>, <<"3", ".", "4", "0", "2", "8", "2", "3", "5", "6", "7", "7", "9", "7", "3", "3", "6", "6", "1", "6", "3", "e", "3", "8">>,
   <<"1", ".", "7", "9", "7", "6", "9", "3", "1", "3", "4", "8", "6", "2", "3", "1", "5", "8", "0", "7", "9", "e", "3", "0", "8">>, <<"2", ".", "4", "7", "0", "3", "2", "8", "2", "2", "9", "2", "0", "6", "2", "3", "2", "7", "2", "0", "9", "e", "-", "3", "2", "4">>,
   <<"7", "e", "-", "4", "6">>, <<"8", "e", "-", "4", "6">>, <<"1", "e", "-", "4", "5">>, <<"1", "6", "7", "7", "7", "2", "1", "7">>,
   <<"0", ".", "0", "0", "0", "1", "2">>, <<"1", "2", "0", ".", "5", "0">>, <<"0", "0", ".", "5", "e", "0", "1">>}

FloatNodes == {ScalarNode(t) : t \in FloatTexts} \cup OtherKindNodes

InitFloat ==
  /\ ty \in FloatTypes
  /\ prior = FloatZero(FALSE)
  /\ rhs = prior
  /\ ret = "none"
  /\ cnt = 0
  /\ rt = FALSE
  /\ \/ pc = "encode" /\ val \in FloatValues(ty) /\ node = NullNode
     \/ pc = "decode" /\ val = NaN /\ node \in FloatNodes

EncodeFloat ==
  /\ pc = "encode" /\ ty \in FloatTypes
  /\ node' = float_encode(ty, val)
  /\ pc' = "decode" /\ rt' = TRUE
  /\ UNCHANGED <<ty, val, prior, rhs, ret, cnt>>

DecodeFloat ==
  /\ pc = "decode" /\ ty \in FloatTypes
  /\ LET r == float_decode(ty, node, rhs)
     IN rhs' = r.rhs /\ ret' = Outcome(r)
  /\ pc' = "done"
  /\ UNCHANGED <<rt, ty, val, node, prior, cnt>>

\* a node written by the floating-point codec read by an integral one
DecodeFloatAsIntegral ==
  /\ pc = "decode" /\ ty \in FloatTypes /\ rt
  /\ \E T \in IntTypes :
       LET r == integral_decode(T, node, SmallInt(1))
       IN rhs' = r.rhs /\ ret' = Outcome(r) /\ ty' = T
  /\ pc' = "done"
  /\ UNCHANGED <<rt, val, node, prior, cnt>>

NextFloat == EncodeFloat \/ DecodeFloat \/ DecodeFloatAsIntegral

SpecFloat == InitFloat /\ [][NextFloat]_vars

(***************************************************************************)
(* Container codecs.  Containers hold integers: T is the element type of a *)
(* vector, list or array and the type of both members of a map entry; a    *)
(* pair is a std::pair<T, U>.                                              *)
(***************************************************************************)
T == "signed char"
U == "unsigned char"

convert_encode(E, v) == IF is_signed(E) THEN signed_encode(v) ELSE unsigned_encode(v)

\* Node::as<E>(): the decoded value, or an exception when decode fails
as(E, n) ==
  LET r == integral_decode(E, n, SmallInt(0))
  IN [threw |-> ~r.ok, value |-> r.rhs]

Returned(ok, target, k) ==
  [ret |-> IF ok THEN "true" ELSE "false", rhs |-> target, cnt |-> k]
Threw(target, k) == [ret |-> "threw", rhs |-> target, cnt |-> k]

\* convert<std::vector<T>>::encode, convert<std::list<T>>::encode
vector_encode(E, v) ==
  SequenceNode([i \in 1..Len(v) |-> convert_encode(E, v[i])])
list_encode(E, v) ==
  SequenceNode([i \in 1..Len(v) |-> convert_encode(E, v[i])])

\* convert<std::array<T, N>>::encode
array_encode(E, v) ==
  SequenceNode([i \in 1..Len(v) |-> convert_encode(E, v[i])])

\* convert<std::pair<T, U>>::encode
pair_encode(E, F, v) ==
  SequenceNode(<<convert_encode(E, v[1]), convert_encode(F, v[2])>>)

\* the loop rhs.push_back(it->as<T>()) from child i on; cnt counts the
\* children whose decode was attempted
RECURSIVE PushBackFrom(_, _, _, _)
PushBackFrom(E, c, i, acc) ==
  IF i > Len(c) THEN Returned(TRUE, acc, Len(c))
  ELSE LET a == as(E, c[i])
       IN IF a.threw THEN Threw(acc, i)
          ELSE PushBackFrom(E, c, i + 1, Append(acc, a.value))

\* convert<std::vector<T>>::decode
vector_decode_no_clear(E, n, target) ==
  IF n.kind # "Sequence" THEN Returned(FALSE, target, 0)
  ELSE PushBackFrom(E, n.children, 1, target)
vector_decode(E, n, target) ==
  IF n.kind # "Sequence" THEN Returned(FALSE, target, 0)
  ELSE PushBackFrom(E, n.children, 1, <<>>)

\* convert<std::list<T>>::decode
list_decode_clear_first(E, n, target) ==
  IF n.kind # "Sequence" THEN Returned(FALSE, <<>>, 0)
  ELSE PushBackFrom(E, n.children, 1, <<>>)
list_decode(E, n, target) ==
  IF n.kind # "Sequence" THEN Returned(FALSE, target, 0)
  ELSE PushBackFrom(E, n.children, 1, <<>>)

\* convert<std::array<T, N>>::isNodeValid
isNodeValid(n, N) == n.kind = "Sequence" /\ Len(n.children) = N

\* the loop rhs[i] = node[i].as<T>() from child i on
RECURSIVE AssignFrom(_, _, _, _)
AssignFrom(E, c, i, acc) ==
  IF i > Len(c) THEN Returned(TRUE, acc, Len(c))
  ELSE LET a == as(E, c[i])
       IN IF a.threw THEN Threw(acc, i)
          ELSE AssignFrom(E, c, i + 1, [acc EXCEPT ![i] = a.value])

\* convert<std::array<T, N>>::decode, N = Len(target)
array_decode_atomic(E, n, target) ==
  IF ~isNodeValid(n, Len(target)) THEN Returned(FALSE, target, 0)
  ELSE LET r == AssignFrom(E, n.children, 1, target)
       IN IF r.ret = "threw" THEN Threw(target, r.cnt) ELSE r
array_decode(E, n, target) ==
  IF ~isNodeValid(n, Len(target)) THEN Returned(FALSE, target, 0)
  ELSE AssignFrom(E, n.children, 1, target)

\* convert<std::pair<T, U>>::decode
pair_decode(E, F, n, target) ==
  IF n.kind # "Sequence" THEN Returned(FALSE, target, 0)
  ELSE IF Len(n.children) # 2 THEN Returned(FALSE, target, 0)
  ELSE LET a == as(E, n.children[1])
       IN IF a.threw THEN Threw(target, 1)
          ELSE LET b == as(F, n.children[2])
               IN IF b.threw THEN Threw(<<a.value, target[2]>>, 2)
                  ELSE Returned(TRUE, <<a.value, b.value>>, 2)

\* a std::map is a function from its keys; operator[]= binds one key
EmptyMap == [k \in {} |-> SmallInt(0)]
Bind(m, k, v) == [x \in DOMAIN m \cup {k} |-> IF x = k THEN v ELSE m[x]]
BindFirst(m, k, v) == IF k \in DOMAIN m THEN m ELSE Bind(m, k, v)

\* the keys of a std::map in its iteration order
KeysInOrder(m) ==
  CHOOSE s \in [1..Cardinality(DOMAIN m) -> DOMAIN m] :
    \A i, j \in 1..Cardinality(DOMAIN m) : i < j => IntLess(s[i], s[j])

\* convert<std::map<K, V>>::encode: force_insert appends one entry per key
map_encode(K, V, m) ==
  LET k == KeysInOrder(m)
  IN MapNode([i \in 1..Cardinality(DOMAIN m) |->
                <<convert_encode(K, k[i]), convert_encode(V, m[k[i]])>>])

\* the order in which rhs[it->first.as<K>()] = it->second.as<V>() evaluates
\* its operands is the compiler's choice: the value before the key (the
\* rule since C++17), the key before the value, or the key and operator[]
\* (which inserts a value-initialized entry) before the value
EvalOrders == {"value, key", "key, value", "key, insert, value"}

\* the loop of map decode from entry i on; cnt counts the as<>() calls made
RECURSIVE InsertFrom(_, _, _, _, _, _)
InsertFrom_keep_first(K, V, c, i, acc, order) ==
  IF i > Len(c) THEN Returned(TRUE, acc, 2 * Len(c))
  ELSE LET k == as(K, c[i][1])
           v == as(V, c[i][2])
       IN IF k.threw \/ v.threw THEN Threw(acc, 2 * i)
          ELSE InsertFrom(K, V, c, i + 1, BindFirst(acc, k.value, v.value), order)
InsertFrom(K, V, c, i, acc, order) ==
  IF i > Len(c) THEN Returned(TRUE, acc, 2 * Len(c))
  ELSE LET k == as(K, c[i][1])
           v == as(V, c[i][2])
           done == 2 * (i - 1)
       IN IF order = "value, key" /\ v.threw THEN Threw(acc, done + 1)
          ELSE IF order = "value, key" /\ k.threw THEN Threw(acc, done + 2)
          ELSE IF k.threw THEN Threw(acc, done + 1)
          ELSE IF v.threw
            THEN Threw(IF order = "key, insert, value"
                       THEN BindFirst(acc, k.value, SmallInt(0)) ELSE acc,
                       done + 2)
          ELSE InsertFrom(K, V, c, i + 1, Bind(acc, k.value, v.value), order)

\* convert<std::map<K, V>>::decode
map_decode(K, V, n, target, order) ==
  IF n.kind # "Map" THEN Returned(FALSE, target, 0)
  ELSE InsertFrom(K, V, n.children, 1, EmptyMap, order)


(***************************************************************************)
(* Container codecs: the inputs and the operations.  ty names the          *)
(* container; the size N of a std::array<T, N> is the length of its target.*)
(***************************************************************************)
ChildTexts == {<<"1">>, <<"2">>, <<"-", "3">>, <<"3", "0", "0">>, <<"x">>}
ChildNodes == {ScalarNode(t) : t \in ChildTexts} \cup {NullNode}

SequenceNodes ==
  {SequenceNode(c) : c \in UNION {[1..k -> ChildNodes] : k \in 0..MaxSeqLen}}

EntryTexts == {<<"1">>, <<"2">>, <<"3", "0", "0">>}
EntryNodes == {ScalarNode(t) : t \in EntryTexts}
MapNodes ==
  {MapNode(c) :
     c \in UNION {[1..k -> EntryNodes \X EntryNodes] : k \in 0..MaxMapLen}}

ScalarOne == ScalarNode(<<"1">>)

\* the targets a decode starts from
Priors(c) ==
  CASE c \in {"vector", "list"} ->
         {<<>>, <<SmallInt(7)>>, <<SmallInt(7), SmallInt(8)>>}
    [] c = "array" -> {[i \in 1..N |-> SmallInt(6 + i)] : N \in 1..MaxSeqLen}
    [] c = "pair" -> {<<SmallInt(7), SmallInt(8)>>}
    [] c = "map" -> {EmptyMap, Bind(EmptyMap, SmallInt(9), SmallInt(7)),
                     Bind(EmptyMap, SmallInt(1), SmallInt(7))}

ElementValues == {SmallInt(-3), SmallInt(1), SmallInt(2)}
SecondValues == {SmallInt(0), SmallInt(2), SmallInt(200)}
NativeSequences == UNION {[1..k -> ElementValues] : k \in 0..MaxSeqLen}
NativeMaps ==
  UNION {[D -> ElementValues] :
           D \in {S \in SUBSET ElementValues : Cardinality(S) <= MaxMapLen}}

\* the values an encode starts from
Natives(c) ==
  CASE c \in {"vector", "list", "array"} -> NativeSequences
    [] c = "pair" -> ElementValues \X SecondValues
    [] c = "map" -> NativeMaps

InitCont ==
  /\ ty \in {"vector", "list", "array", "pair", "map"}
  /\ prior \in Priors(ty)
  /\ rhs = prior
  /\ ret = "none"
  /\ cnt = 0
  /\ rt = FALSE
  /\ \/ /\ pc = "encode" /\ val \in Natives(ty) /\ node = NullNode
        /\ ty = "array" => Len(val) = Len(prior)
     \/ /\ pc = "decode" /\ val = <<>>
        /\ node \in (IF ty = "map" THEN MapNodes ELSE SequenceNodes)
                      \cup {NullNode, ScalarOne}
                      \cup (IF ty = "map"
                            THEN {SequenceNode(<<ScalarOne, ScalarOne>>)}
                            ELSE {MapNode(<<<<ScalarOne, ScalarOne>>>>)})

EncodeVector ==
  /\ pc = "encode" /\ ty = "vector"
  /\ node' = vector_encode(T, val)
  /\ pc' = "decode" /\ rt' = TRUE
  /\ UNCHANGED <<ty, val, prior, rhs, ret, cnt>>

EncodeList ==
  /\ pc = "encode" /\ ty = "list"
  /\ node' = list_encode(T, val)
  /\ pc' = "decode" /\ rt' = TRUE
  /\ UNCHANGED <<ty, val, prior, rhs, ret, cnt>>

EncodeArray ==
  /\ pc = "encode" /\ ty = "array"
  /\ node' = array_encode(T, val)
  /\ pc' = "decode" /\ rt' = TRUE
  /\ UNCHANGED <<ty, val, prior, rhs, ret, cnt>>

EncodePair ==
  /\ pc = "encode" /\ ty = "pair"
  /\ node' = pair_encode(T, U, val)
  /\ pc' = "decode" /\ rt' = TRUE
  /\ UNCHANGED <<ty, val, prior, rhs, ret, cnt>>

EncodeMap ==
  /\ pc = "encode" /\ ty = "map"
  /\ node' = map_encode(T, T, val)
  /\ pc' = "decode" /\ rt' = TRUE
  /\ UNCHANGED <<ty, val, prior, rhs, ret, cnt>>

Finish(r) ==
  /\ rhs' = r.rhs /\ ret' = r.ret /\ cnt' = r.cnt
  /\ pc' = "done"
  /\ UNCHANGED <<rt, ty, val, node, prior>>

DecodeVector == pc = "decode" /\ ty = "vector" /\ Finish(vector_decode(T, node, rhs))

DecodeList == pc = "decode" /\ ty = "list" /\ Finish(list_decode(T, node, rhs))

DecodeArray == pc = "decode" /\ ty = "array" /\ Finish(array_decode(T, node, rhs))

DecodePair == pc = "decode" /\ ty = "pair" /\ Finish(pair_decode(T, U, node, rhs))

DecodeMap ==
  /\ pc = "decode" /\ ty = "map"
  /\ \E order \in EvalOrders : Finish(map_decode(T, T, node, rhs, order))

NextCont ==
  \/ EncodeVector \/ EncodeList \/ EncodeArray \/ EncodePair \/ EncodeMap
  \/ DecodeVector \/ DecodeList \/ DecodeArray \/ DecodePair \/ DecodeMap

SpecCont == InitCont /\ [][NextCont]_vars

(***************************************************************************)
(* Binary codec.  A Binary either owns its bytes or views bytes owned      *)
(* elsewhere.                                                              *)
(***************************************************************************)
Binary(owned, bytes) == [owned |-> owned, bytes |-> bytes]

\* the base64 alphabet
B64Chars == <<"A", "B", "C", "D", "E", "F", "G", "H", "I", "J", "K", "L", "M", "N", "O", "P", "Q", "R", "S", "T", "U", "V", "W", "X", "Y", "Z", "a", "b", "c", "d", "e", "f", "g", "h", "i", "j", "k", "l", "m", "n", "o", "p", "q", "r", "s", "t", "u", "v", "w", "x", "y", "z", "0", "1", "2", "3", "4", "5", "6", "7", "8", "9", "+", "/">>

\* the base64 decoding table: 255 marks a character outside the alphabet
B64Value(c) ==
  IF c = "=" THEN 0
  ELSE IF \E i \in 1..Len(B64Chars) : B64Chars[i] = c
    THEN (CHOOSE i \in 1..Len(B64Chars) : B64Chars[i] = c) - 1
  ELSE 255

\* EncodeBase64: four characters for every three bytes, the last group
\* padded with '='
EncodeBase64(data) ==
  LET chunks == Len(data) \div 3
      remainder == Len(data) % 3
      enc(k) == B64Chars[k + 1]
      at(j) == data[3 * chunks + j]
      group(i) ==
        LET a == data[3 * i - 2]
            b == data[3 * i - 1]
            c == data[3 * i]
        IN <<enc(a \div 4), enc((a % 4) * 16 + (b \div 16)),
             enc((b % 16) * 4 + (c \div 64)), enc(c % 64)>>
  IN [p \in 1..(4 * chunks) |-> group(((p - 1) \div 4) + 1)[((p - 1) % 4) + 1]]
       \o (CASE remainder = 0 -> <<>>
              [] remainder = 1 ->
                   <<enc(at(1) \div 4), enc((at(1) % 4) * 16), "=", "=">>
              [] remainder = 2 ->
                   <<enc(at(1) \div 4), enc((at(1) % 4) * 16 + (at(2) \div 16)),
                     enc((at(2) % 16) * 4), "=">>)

\* DecodeBase64 from character i on: white space is skipped, a character
\* outside the alphabet gives no bytes at all, every fourth character
\* completes a group of up to three bytes
RECURSIVE DecodeBase64From(_, _, _, _, _)
DecodeBase64From(input, i, value, n, out) ==
  IF i > Len(input) THEN out
  ELSE IF input[i] = " " THEN DecodeBase64From(input, i + 1, value, n, out)
  ELSE IF B64Value(input[i]) = 255 THEN <<>>
  ELSE LET v == (value * 64 + B64Value(input[i])) % (2 ^ 24)
       IN IF n % 4 = 3
          THEN DecodeBase64From(input, i + 1, v, n + 1,
                 out \o <<v \div (2 ^ 16)>>
                     \o (IF input[i - 1] # "=" THEN <<(v \div 256) % 256>> ELSE <<>>)
                     \o (IF input[i] # "=" THEN <<v % 256>> ELSE <<>>))
          ELSE DecodeBase64From(input, i + 1, v, n + 1, out)

DecodeBase64(input) == DecodeBase64From(input, 1, 0, 0, <<>>)

\* Binary::swap(std::vector<unsigned char>&): the Binary owns the bytes
swap(target, data) == Binary(TRUE, data)

\* convert<Binary>::encode
binary_encode(v) == ScalarNode(EncodeBase64(v.bytes))

\* convert<Binary>::decode
binary_decode_swap_first(n, target) ==
  IF n.kind # "Scalar" THEN Fail(target)
  ELSE LET data == DecodeBase64(n.scalar)
       IN IF data = <<>> /\ n.scalar # <<>> THEN Fail(swap(target, data))
          ELSE Ok(swap(target, data))
binary_decode(n, target) ==
  IF n.kind # "Scalar" THEN Fail(target)
  ELSE LET data == DecodeBase64(n.scalar)
       IN IF data = <<>> /\ n.scalar # <<>> THEN Fail(target)
          ELSE Ok(swap(target, data))

B64Alphabet == {"A", "Q", "g", "/", "=", "!", " "}

BinaryNodes ==
  {ScalarNode(t) : t \in Texts(B64Alphabet, MaxB64Len)} \cup OtherKindNodes

Bytes == {0, 65, 255}

Binaries ==
  {Binary(o, b) : o \in BOOLEAN, b \in UNION {[1..k -> Bytes] : k \in 0..MaxBytes}}

InitBin ==
  /\ ty = "Binary"
  /\ prior \in {Binary(TRUE, <<>>), Binary(TRUE, <<1, 2>>), Binary(FALSE, <<3>>)}
  /\ rhs = prior
  /\ ret = "none"
  /\ cnt = 0
  /\ rt = FALSE
  /\ \/ pc = "encode" /\ val \in Binaries /\ node = NullNode
     \/ pc = "decode" /\ val = Binary(TRUE, <<>>) /\ node \in BinaryNodes

EncodeBinary ==
  /\ pc = "encode" /\ ty = "Binary"
  /\ node' = binary_encode(val)
  /\ pc' = "decode" /\ rt' = TRUE
  /\ UNCHANGED <<ty, val, prior, rhs, ret, cnt>>

DecodeBinary ==
  /\ pc = "decode" /\ ty = "Binary"
  /\ LET r == binary_decode(node, rhs)
     IN rhs' = r.rhs /\ ret' = Outcome(r)
  /\ pc' = "done"
  /\ UNCHANGED <<rt, ty, val, node, prior, cnt>>

NextBin == EncodeBinary \/ DecodeBinary

SpecBin == InitBin /\ [][NextBin]_vars


(***************************************************************************)
(* Leaf codecs: Node, std::string, C strings, _Null, characters and bool.  *)
(***************************************************************************)
\* "true|True|TRUE" and "false|False|FALSE"
re_true(s) == s \in {<<"t", "r", "u", "e">>, <<"T", "r", "u", "e">>, <<"T", "R", "U", "E">>}
re_false(s) == s \in {<<"f", "a", "l", "s", "e">>, <<"F", "a", "l", "s", "e">>, <<"F", "A", "L", "S", "E">>}

\* convert<Node>
node_encode(v) == v
node_decode(n, target) == Ok(n)

\* convert<std::string>
string_encode(v) == ScalarNode(v)
string_decode(n, target) ==
  IF n.kind # "Scalar" THEN Fail(target) ELSE Ok(n.scalar)

\* convert<const char*> and convert<const char[N]>: encode only
cstring_encode(v) == ScalarNode(v)

\* convert<_Null>
null_encode(v) == NullNode
null_decode(n, target) == [ok |-> n.kind = "Null", rhs |-> target]

\* convert<character>: std::string(1, rhs), and input[0] of a text of
\* length one
character_encode(v) == ScalarNode(<<v>>)
character_decode(n, target) ==
  IF n.kind # "Scalar" THEN Fail(target)
  ELSE IF Len(n.scalar) # 1 THEN Fail(target)
  ELSE Ok(n.scalar[1])

\* convert<bool>; decode is defined outside this header
bool_encode(v) == IF v THEN ScalarNode(<<"t", "r", "u", "e">>) ELSE ScalarNode(<<"f", "a", "l", "s", "e">>)
bool_decode(n, target) ==
  IF n.kind # "Scalar" THEN Fail(target)
  ELSE IF re_true(n.scalar) THEN Ok(TRUE)
  ELSE IF re_false(n.scalar) THEN Ok(FALSE)
  ELSE Fail(target)

LeafTypes == {"Node", "std::string", "const char*", "_Null", "char", "bool"}

leaf_encode(L, v) ==
  CASE L = "Node" -> node_encode(v)
    [] L = "std::string" -> string_encode(v)
    [] L = "const char*" -> cstring_encode(v)
    [] L = "_Null" -> null_encode(v)
    [] L = "char" -> character_encode(v)
    [] L = "bool" -> bool_encode(v)

leaf_decode(L, n, target) ==
  CASE L = "Node" -> node_decode(n, target)
    [] L = "std::string" -> string_decode(n, target)
    [] L = "_Null" -> null_decode(n, target)
    [] L = "char" -> character_decode(n, target)
    [] L = "bool" -> bool_decode(n, target)

LeafTexts == {<<>>, <<"a">>, <<"a", "b">>, <<"1">>, <<"t", "r", "u", "e">>, <<"T", "r", "u", "e">>, <<"T", "R", "U", "E">>, <<"t", "R", "U", "E">>,
              <<"f", "a", "l", "s", "e">>, <<"F", "a", "l", "s", "e">>, <<"F", "A", "L", "S", "E">>, <<"f", "a", "l", "s", "E">>, <<"y", "e", "s">>}
LeafNodes ==
  {ScalarNode(t) : t \in LeafTexts} \cup OtherKindNodes
    \cup {SequenceNode(<<ScalarNode(<<"a">>)>>)}

LeafValues(L) ==
  CASE L = "Node" -> LeafNodes
    [] L \in {"std::string", "const char*"} -> LeafTexts
    [] L = "_Null" -> {"Null"}
    [] L = "char" -> {"a", "1", " "}
    [] L = "bool" -> BOOLEAN

LeafPriors(L) ==
  CASE L = "Node" -> {NullNode}
    [] L \in {"std::string", "const char*"} -> {<<"z", "z">>}
    [] L = "_Null" -> {"Null"}
    [] L = "char" -> {"z"}
    [] L = "bool" -> BOOLEAN

InitLeaf ==
  /\ ty \in LeafTypes
  /\ prior \in LeafPriors(ty)
  /\ rhs = prior
  /\ ret = "none"
  /\ cnt = 0
  /\ rt = FALSE
  /\ \/ pc = "encode" /\ val \in LeafValues(ty) /\ node = NullNode
     \/ /\ pc = "decode" /\ ty # "const char*"
        /\ val = prior /\ node \in LeafNodes

EncodeLeaf ==
  /\ pc = "encode" /\ ty \in LeafTypes
  /\ node' = leaf_encode(ty, val)
  /\ pc' = (IF ty = "const char*" THEN "done" ELSE "decode")
  /\ rt' = TRUE
  /\ UNCHANGED <<ty, val, prior, rhs, ret, cnt>>

DecodeLeaf ==
  /\ pc = "decode" /\ ty \in LeafTypes
  /\ LET r == leaf_decode(ty, node, rhs)
     IN rhs' = r.rhs /\ ret' = Outcome(r)
  /\ pc' = "done"
  /\ UNCHANGED <<rt, ty, val, node, prior, cnt>>

NextLeaf == EncodeLeaf \/ DecodeLeaf

SpecLeaf == InitLeaf /\ [][NextLeaf]_vars

(***************************************************************************)
(* The whole codec layer.                                                  *)
(***************************************************************************)
Init == InitInt \/ InitFloat \/ InitCont \/ InitBin \/ InitLeaf

Next == NextInt \/ NextFloat \/ NextCont \/ NextBin \/ NextLeaf

Spec == Init /\ [][Next]_vars

(***************************************************************************)
(* Properties of the integral codec (checked under SpecInt).               *)
(***************************************************************************)
\* the integer a text of one of the three grammars denotes, computed in
\* limbs enough for every text of the model
WideLimbs == AccLimbs + 2
Widen(x) == [i \in 1..WideLimbs |-> IF i <= Len(x) THEN x[i] ELSE 0]
Grammar(s) == re_decimal(s) \/ re_octal(s) \/ re_hex(s)
Denoted(s) ==
  IF re_decimal(s)
    THEN MkInt(s[1] = "-", Magnitude(StripSign(s), 10, WideLimbs).limbs)
  ELSE IF re_octal(s) THEN MkInt(FALSE, Magnitude(substr(s, 2), 8, WideLimbs).limbs)
  ELSE MkInt(FALSE, Magnitude(substr(s, 2), 16, WideLimbs).limbs)
WideInt(v) == MkInt(v.neg, Widen(v.mag))
InRange(d, E) ==
  /\ ~IntLess(WideInt(numeric_limits_max(E)), d)
  /\ ~IntLess(d, WideInt(numeric_limits_min(E)))

\* C1: for every integral type and every value of it, the limits included,
\* decoding the encoded node succeeds and gives the value back
C1_RoundTrip == (pc = "done" /\ rt) => (ret = "true" /\ rhs = val)

C1_Witness ==
  /\ pc = "done" /\ rt /\ ty = "long long"
  /\ val = numeric_limits_min("long long")
  /\ ret = "true" /\ rhs = val

\* C2: a text of one of the grammars decodes successfully only if the
\* integer it denotes, sign included, lies in the range of the target type,
\* and then the decoded value is that integer
C2_RangeChecked ==
  (pc = "done" /\ ~rt /\ node.kind = "Scalar" /\ Grammar(node.scalar))
    => (ret = "true"
          => /\ InRange(Denoted(node.scalar), ty)
             /\ WideInt(rhs) = Denoted(node.scalar))

\* C3: the three grammars exclude each other; "42", "0o52" and "0x2a" decode
\* to 42; an octal or hex text is read in its base; an octal or hex text
\* with a sign, and a text of no grammar, fail for every integral type
C3_Grammars ==
  (pc = "done" /\ ~rt /\ node.kind = "Scalar") =>
    LET s == node.scalar IN
    /\ ~(re_decimal(s) /\ re_octal(s))
    /\ ~(re_decimal(s) /\ re_hex(s))
    /\ ~(re_octal(s) /\ re_hex(s))
    /\ s \in {<<"4", "2">>, <<"0", "o", "5", "2">>, <<"0", "x", "2", "a">>} => ret = "true" /\ rhs = SmallInt(42)
    /\ (re_octal(s) \/ re_hex(s)) /\ ret = "true" => WideInt(rhs) = Denoted(s)
    /\ (Len(s) > 0 /\ s[1] \in Sign /\ (re_octal(Tail(s)) \/ re_hex(Tail(s))))
         => ret = "false"
    /\ ~Grammar(s) => ret = "false"

C3_Witness ==
  /\ pc = "done" /\ ~rt /\ ty = "int"
  /\ node = ScalarNode(<<"-", "0", "x", "2", "a">>)
  /\ ret = "false"

(***************************************************************************)
(* Properties of the floating-point codec (checked under SpecFloat).       *)
(***************************************************************************)
\* C4: the text float encode writes never matches the decimal grammar and
\* always matches the float, infinity or NaN grammar; an integral decode of
\* it fails and a floating-point decode of it succeeds
C4_FloatText ==
  (rt /\ pc \in {"decode", "done"}) =>
    /\ ~re_decimal(node.scalar)
    /\ re_float(node.scalar) \/ re_inf(node.scalar) \/ re_nan(node.scalar)
    /\ pc = "done" => ret = (IF ty \in IntTypes THEN "false" ELSE "true")

(***************************************************************************)
(* Properties of the container codecs (checked under SpecCont).            *)
(***************************************************************************)
\* the element type child i is decoded into
ElemType(c, i) == IF c = "pair" /\ i = 2 THEN U ELSE T

\* the shape test of each container decode
ShapeValid ==
  CASE ty \in {"vector", "list"} -> node.kind = "Sequence"
    [] ty = "array" -> node.kind = "Sequence" /\ Len(node.children) = Len(prior)
    [] ty = "pair" -> node.kind = "Sequence" /\ Len(node.children) = 2
    [] ty = "map" -> node.kind = "Map"

ElementDecodes(E, n) == integral_decode(E, n, SmallInt(0)).ok
ElementValue(E, n) == integral_decode(E, n, SmallInt(0)).rhs

ChildFails(i) ==
  IF ty = "map"
    THEN ~ElementDecodes(T, node.children[i][1]) \/ ~ElementDecodes(T, node.children[i][2])
  ELSE ~ElementDecodes(ElemType(ty, i), node.children[i])

SomeChildFails == \E i \in 1..Len(node.children) : ChildFails(i)

FirstFailing ==
  CHOOSE i \in 1..Len(node.children) :
    ChildFails(i) /\ \A j \in 1..(i - 1) : ~ChildFails(j)

\* C5: when a child of a shape-valid node fails its decode, the container
\* decode returns false instead of throwing
C5_NoThrow ==
  (pc = "done" /\ ShapeValid /\ SomeChildFails) => ret = "false"

\* C6: a node of the wrong kind or the wrong length is refused with false
\* before the target is touched or any child is decoded
C6_ShapeChecked ==
  (pc = "done" /\ ~ShapeValid) => (ret = "false" /\ rhs = prior /\ cnt = 0)

C6_Witness ==
  /\ pc = "done" /\ ty = "array"
  /\ node.kind = "Sequence" /\ Len(node.children) = 2 /\ Len(prior) = 3
  /\ ret = "false" /\ rhs = prior

\* the decoded key and value of entry i of a Map node
KeyOf(i) == ElementValue(T, node.children[i][1])
ValueOf(i) == ElementValue(T, node.children[i][2])

\* C7: a Map node whose children all decode gives a map that binds each
\* decoded key to the value of the last entry with that key, and holds
\* nothing else
C7_LastWins ==
  (pc = "done" /\ ty = "map" /\ node.kind = "Map" /\ ~SomeChildFails) =>
    /\ ret = "true"
    /\ DOMAIN rhs = {KeyOf(i) : i \in 1..Len(node.children)}
    /\ \A i \in 1..Len(node.children) :
         (\A j \in (i + 1)..Len(node.children) : KeyOf(j) # KeyOf(i))
           => rhs[KeyOf(i)] = ValueOf(i)

C7_Witness ==
  /\ pc = "done" /\ ty = "map"
  /\ node = MapNode(<<<<ScalarNode(<<"1">>), ScalarNode(<<"1">>)>>,
                      <<ScalarNode(<<"1">>), ScalarNode(<<"2">>)>>>>)
  /\ prior = Bind(EmptyMap, SmallInt(9), SmallInt(7))
  /\ rhs = Bind(EmptyMap, SmallInt(1), SmallInt(2))

\* C8: a vector or list encodes to a Sequence node with one child per
\* element, in order, and decoding it into any target gives the container
\* back with nothing of the target's prior content
C8_RoundTrip ==
  (rt /\ ty \in {"vector", "list"}) =>
    /\ pc \in {"decode", "done"} =>
         /\ node.kind = "Sequence"
         /\ Len(node.children) = Len(val)
         /\ \A j \in 1..Len(val) : node.children[j] = ScalarNode(to_string(val[j]))
    /\ pc = "done" => ret = "true" /\ rhs = val

C8_Witness ==
  /\ pc = "done" /\ rt /\ ty = "vector"
  /\ Len(val) = 2 /\ val[1] # val[2]
  /\ prior # <<>>
  /\ ret = "true" /\ rhs = val

\* C10: when child i is the first of a shape-valid Sequence node to fail,
\* no later child is decoded; a vector or list then holds exactly the
\* values of the children before i, an array or pair holds them in its
\* first positions and its prior values from position i on
C10_PartialTarget ==
  (pc = "done" /\ ty # "map" /\ ShapeValid /\ SomeChildFails) =>
    LET i == FirstFailing
        decoded(j) == ElementValue(ElemType(ty, j), node.children[j])
    IN /\ cnt = i
       /\ IF ty \in {"vector", "list"}
            THEN rhs = [j \in 1..(i - 1) |-> decoded(j)]
            ELSE rhs = [j \in 1..Len(prior) |->
                          IF j < i THEN decoded(j) ELSE prior[j]]

C10_Witness ==
  /\ pc = "done" /\ ty = "array" /\ Len(prior) = 3
  /\ ShapeValid /\ SomeChildFails /\ FirstFailing = 2
  /\ rhs[1] # prior[1] /\ rhs[2] = prior[2] /\ rhs[3] = prior[3]

(***************************************************************************)
(* Properties of the binary codec (checked under SpecBin).                 *)
(***************************************************************************)
\* C9: binary decode fails exactly when the node is no Scalar or when the
\* text is non-empty and decodes to no bytes; on success the target holds
\* the decoded bytes (none for the empty text), on failure it is unchanged
C9_Binary ==
  pc = "done" =>
    LET bytes == DecodeBase64(node.scalar)
        refused == \/ node.kind # "Scalar"
                   \/ bytes = <<>> /\ node.scalar # <<>>
    IN /\ ret = "false" <=> refused
       /\ ret = "true" => rhs.bytes = bytes /\ rhs.owned
       /\ ret = "false" => rhs = prior

C9_Witness ==
  /\ pc = "done" /\ node.kind = "Scalar"
  /\ node.scalar # <<>> /\ DecodeBase64(node.scalar) = <<>>
  /\ prior.bytes # <<>>
  /\ ret = "false" /\ rhs = prior


=============================================================================
